---- MODULE Spec2Model ----
(***************************************************************************)
(* YieldWise AI (src/app.py): the request handlers of the Flask            *)
(* application as a state machine over the SQLite tables, the cookie       *)
(* sessions, the rate limiter's counters and the requests that are         *)
(* waiting for the Gemini backend.                                         *)
(***************************************************************************)
EXTENDS Naturals, Sequences, FiniteSets

(* ------------------------------ bounds -------------------------------- *)
\* rows the farm_plans and diagnoses tables ever receive, together
MaxArtifacts == 1
\* rows either chat table ever receives
MaxTurns == 3
\* seconds CURRENT_TIMESTAMP advances over
MaxClock == 1
\* uuid4 values drawn by create_showcase
MaxTokens == 2
\* lines of a response text before the sentinel
MaxPrimaryLines == 1
\* lines of a response text after the sentinel
MaxSuggestionLines == 4

(* ------------------------- program constants -------------------------- *)
\* @limiter.limit("3 per day")
GenerateDailyLimit == 3
DiagnoseDailyLimit == 3
\* len(question.strip()) < 3
MinQuestionLen == 3

(* ------------------------------ values -------------------------------- *)
\* Python None / SQL NULL in an id column (ids start at 1)
None == 0
Sessions == {"s1", "s2"}
Emails == {"ada@farm", "bob@farm"}
UserIds == 1..Cardinality(Emails)
Addrs == {"10.0.0.1", "10.0.0.2"}
\* response.text of a successful backend call
BackendTexts == {"textA", "textB"}
\* what gemini_model.generate_content(...) and response.text can do instead
Raises == "raises"
Malformed == "malformed"
BackendFailures == {Raises, Malformed}
BackendOutcomes == BackendTexts \cup BackendFailures

ErrUnavailableHtml == "<p class='error-message'>AI service is currently unavailable.</p>"
ErrPlanHtml == "<p class='error-message'>Error: Could not generate the plan.</p>"
ErrDiagnosisHtml == "<p class='error-message'>Sorry, an error occurred while analyzing the image.</p>"
ErrorFragments == {ErrUnavailableHtml, ErrPlanHtml, ErrDiagnosisHtml}

(* A text is a sequence of tokens: "\n", " ", the sentinel, a digit, a marker, *)
(* or a word that holds none of these.                                       *)
Sentinel == "---SUGGESTIONS---"
Whitespace == {" ", "\n"}

\* str.find: where the token first occurs in the text, 0 when it does not
Find(text, token) ==
  IF \E i \in DOMAIN text : text[i] = token
  THEN CHOOSE i \in DOMAIN text : text[i] = token /\ \A j \in 1..(i - 1) : text[j] # token
  ELSE 0

\* str.split(sep, 1)
SplitOnce(text, sep) ==
  LET i == Find(text, sep)
  IN IF i = 0 THEN <<text>>
     ELSE <<SubSeq(text, 1, i - 1), SubSeq(text, i + 1, Len(text))>>

RECURSIVE SplitLines(_)
\* str.split('\n')
SplitLines(text) ==
  IF Find(text, "\n") = 0 THEN <<text>>
  ELSE <<SplitOnce(text, "\n")[1]>> \o SplitLines(SplitOnce(text, "\n")[2])

RECURSIVE StripText(_)
\* str.strip()
StripText(text) ==
  IF text = <<>> THEN text
  ELSE IF Head(text) \in Whitespace THEN StripText(Tail(text))
  ELSE IF text[Len(text)] \in Whitespace THEN StripText(SubSeq(text, 1, Len(text) - 1))
  ELSE text

RECURSIVE Join(_)
\* the string the tokens of a text spell
Join(text) == IF text = <<>> THEN "" ELSE Head(text) \o Join(Tail(text))

\* text.replace(token, '')
Without(text, token) ==
  LET Keep(t) == t # token
  IN SelectSeq(text, Keep)

\* markdown.markdown(text): the text without surrounding blanks, as a paragraph
Markdown(text) ==
  IF StripText(text) = <<>> THEN <<>> ELSE <<"<p>">> \o StripText(text) \o <<"</p>">>

\* a handler that does not look for the error fragment
ContainsErrorMessage_never(html) == FALSE

\* "error-message" in plan_html
ContainsErrorMessage(html) == html \in ErrorFragments

VARIABLES
  configured,              \* gemini_model is not None
  users,                   \* table users, in id order
  session,                 \* the cookie session of each client
  farm_plans,              \* table farm_plans, in rowid order
  next_plan_id,            \* AUTOINCREMENT of farm_plans
  chat_history,            \* table chat_history, in rowid order
  diagnoses,               \* table diagnoses, in rowid order
  next_diagnosis_id,       \* AUTOINCREMENT of diagnoses
  diagnoses_chat_history,  \* table diagnoses_chat_history, in rowid order
  limiter,                 \* hits of the current window, per route and key
  now,                     \* CURRENT_TIMESTAMP, in seconds
  reqs,                    \* the requests that are inside a handler
  next_token,              \* how many uuid4 values were drawn
  last                     \* the step just taken and the response it gave

vars == <<configured, users, session, farm_plans, next_plan_id, chat_history,
          diagnoses, next_diagnosis_id, diagnoses_chat_history, limiter, now,
          reqs, next_token, last>>

db == <<users, farm_plans, next_plan_id, chat_history, diagnoses,
        next_diagnosis_id, diagnoses_chat_history>>
plan_tables == <<farm_plans, next_plan_id, chat_history>>
diagnosis_tables == <<diagnoses, next_diagnosis_id, diagnoses_chat_history>>

ReqIds == {1, 2}
Idle == [kind |-> "idle"]

(* ----------------------------- helpers -------------------------------- *)
Range(seq) == {seq[i] : i \in DOMAIN seq}

\* the step's record: which handler ran for whom, and what it answered
Response(op, s, u, id, status, err, called) ==
  [op |-> op, sess |-> s, user |-> u, id |-> id, status |-> status,
   err |-> err, called |-> called, outcome |-> "-", sent |-> <<>>, showcase_id |-> None,
   result |-> <<>>, request |-> <<>>]

\* the record of a step that answered the request whose body, form or question
\* is `request`
Answer(request, op, s, u, id, status, err, called) ==
  [Response(op, s, u, id, status, err, called) EXCEPT !.request = <<request>>]

\* the record of a step whose handler took `result` from generate_farm_plan or
\* diagnose_plant_issue: whether the backend was called and what it did
Called(response, result, outcome) ==
  [response EXCEPT !.called = result.called,
                   !.outcome = IF result.called THEN outcome ELSE "-"]

\* the record of a step that sent the text `sent` to gemini_model.generate_content
Waiting(op, s, u, id, sent) ==
  [op |-> op, sess |-> s, user |-> u, id |-> id, status |-> 0,
   err |-> "waiting", called |-> TRUE, outcome |-> "-", sent |-> sent, showcase_id |-> None,
   result |-> <<>>, request |-> <<>>]

\* current_user.is_authenticated
IsAuthenticated(s) == session[s].user_id # None

\* SELECT * FROM users WHERE email = ?
UserByEmail(email) == {u \in Range(users) : u.email = email}

\* an ownership lookup that leaves out AND user_id = ?
OwnedPlan_any(id, u) == {p \in Range(farm_plans) : p.id = id}

\* SELECT * FROM farm_plans WHERE id = ? AND user_id = ?
OwnedPlan(id, u) == {p \in Range(farm_plans) : p.id = id /\ p.user_id = u}

\* SELECT * FROM diagnoses WHERE id = ? AND user_id = ?
OwnedDiagnosis(id, u) == {d \in Range(diagnoses) : d.id = id /\ d.user_id = u}

\* how many rows farm_plans and diagnoses have received so far
ArtifactsStored == (next_plan_id - 1) + (next_diagnosis_id - 1)

\* a session cookie that holds nothing; guest_plan is <<>> when the key is absent
NewSession == [user_id |-> None, free_plan_used |-> FALSE, guest_plan |-> <<>>]

\* the limiter's storage with no hit recorded
NoHits ==
  [generate_user |-> [u \in UserIds |-> 0], generate_fn |-> 0,
   diagnose |-> [a \in Addrs |-> 0]]

Init ==
  /\ configured \in BOOLEAN
  /\ users = <<>>
  /\ session = [s \in Sessions |-> NewSession]
  /\ farm_plans = <<>>
  /\ next_plan_id = 1
  /\ chat_history = <<>>
  /\ diagnoses = <<>>
  /\ next_diagnosis_id = 1
  /\ diagnoses_chat_history = <<>>
  /\ limiter = NoHits
  /\ now = 0
  /\ reqs = [r \in ReqIds |-> Idle]
  /\ next_token = 0
  /\ last = Response("init", "-", None, None, 0, "-", FALSE)

(* ------------------- process start, clock, limiter -------------------- *)
\* the process is started again with or without GEMINI_API_KEY: the database
\* file and the clients' cookies stay, the requests in flight and the limiter's
\* in-memory counters are gone
Restart ==
  /\ configured' \in BOOLEAN
  /\ limiter' = NoHits
  /\ reqs' = [r \in ReqIds |-> Idle]
  /\ last' = Response("restart", "-", None, None, 0, "-", FALSE)
  /\ UNCHANGED <<db, session, now, next_token>>

\* a second passes
Tick ==
  /\ now < MaxClock
  /\ now' = now + 1
  /\ last' = Response("tick", "-", None, None, 0, "-", FALSE)
  /\ UNCHANGED <<configured, db, session, limiter, reqs, next_token>>

\* the limiter's day window ends
NewDay ==
  /\ limiter # NoHits
  /\ limiter' = NoHits
  /\ last' = Response("new_day", "-", None, None, 0, "-", FALSE)
  /\ UNCHANGED <<configured, db, session, now, reqs, next_token>>

(* ------------------------- register, login ---------------------------- *)
\* the farm_plans row register inserts for a cached guest plan
GuestPlanRow(new_user_id, guest_plan) ==
  [id |-> next_plan_id, user_id |-> new_user_id, location |-> guest_plan.location,
   plan_html |-> guest_plan.plan_html, showcase_id |-> None]

\* a mutation of PopGuestPlan: the cached plan stays in the session
PopGuestPlan_kept(sess) == sess

\* session.pop('guest_plan', None)
PopGuestPlan(sess) == [sess EXCEPT !.guest_plan = <<>>]

\* POST /register; form is <<>> when a field is missing, else <<email>>
Register(s, form) ==
  LET u == session[s].user_id
  IN
  IF form = <<>> THEN
    /\ last' = Response("register", s, u, None, 302, "fields_required", FALSE)
    /\ UNCHANGED <<configured, db, session, limiter, now, reqs, next_token>>
  ELSE IF UserByEmail(form[1]) # {} THEN
    /\ last' = Response("register", s, u, None, 302, "email_exists", FALSE)
    /\ UNCHANGED <<configured, db, session, limiter, now, reqs, next_token>>
  ELSE
    LET new_user_id == Len(users) + 1
    IN
    /\ users' = Append(users, [id |-> new_user_id, email |-> form[1]])
    /\ IF session[s].guest_plan # <<>> THEN
         /\ ArtifactsStored < MaxArtifacts
         /\ farm_plans' = Append(farm_plans, GuestPlanRow(new_user_id, session[s].guest_plan[1]))
         /\ next_plan_id' = next_plan_id + 1
         /\ session' = [session EXCEPT ![s] = PopGuestPlan(@)]
       ELSE
         UNCHANGED <<farm_plans, next_plan_id, session>>
    /\ last' = Response("register", s, u, new_user_id, 302, "registered", FALSE)
    /\ UNCHANGED <<configured, chat_history, diagnosis_tables, limiter, now, reqs, next_token>>

\* POST /login; password_ok is check_password_hash's answer
Login(s, email, password_ok) ==
  LET found == UserByEmail(email)
  IN
  /\ IF found # {} /\ password_ok THEN
       /\ session' = [session EXCEPT ![s].user_id = (CHOOSE u \in found : TRUE).id]
       /\ last' = Response("login", s, session[s].user_id, None, 302, "logged_in", FALSE)
     ELSE
       /\ last' = Response("login", s, session[s].user_id, None, 302, "invalid_login", FALSE)
       /\ UNCHANGED session
  /\ UNCHANGED <<configured, db, limiter, now, reqs, next_token>>

\* GET /logout, behind @login_required
Logout(s) ==
  /\ IF IsAuthenticated(s) THEN
       /\ session' = [session EXCEPT ![s].user_id = None]
       /\ last' = Response("logout", s, session[s].user_id, None, 302, "logged_out", FALSE)
     ELSE
       /\ last' = Response("logout", s, None, None, 302, "login_required", FALSE)
       /\ UNCHANGED session
  /\ UNCHANGED <<configured, db, limiter, now, reqs, next_token>>

(* --------------------------- AI functions ----------------------------- *)
\* the response text of a named backend answer: the answer, the sentinel and
\* one numbered follow-up question
ResponseText(outcome) == <<outcome, "\n", Sentinel, "\n", "1", ". ", outcome>>

\* any(s.strip().startswith(str(i)) for i in range(1, 6))
StartsWithDigit(line) == line # <<>> /\ line[1] \in {"1", "2", "3", "4", "5"}

\* a return without [:3]
FirstThree_all(suggestions) == suggestions

\* suggestions[:3]
FirstThree(suggestions) == SubSeq(suggestions, 1, IF Len(suggestions) < 3 THEN Len(suggestions) ELSE 3)

\* the list comprehension over suggestions_text.strip().split('\n')
Suggestions(suggestions_text) ==
  LET lines == SplitLines(StripText(suggestions_text))
      stripped == [i \in DOMAIN lines |-> StripText(lines[i])]
      Keep(line) == line # <<>> /\ StartsWithDigit(line)
  IN SelectSeq(stripped, Keep)

\* generate_farm_plan from response.text on: the HTML and the suggestions
PlanFromResponse(full_response) ==
  IF Find(full_response, Sentinel) # 0 THEN
    LET parts == SplitOnce(full_response, Sentinel)
    IN [plan_html |-> Markdown(parts[1]), suggestions |-> FirstThree(Suggestions(parts[2]))]
  ELSE
    [plan_html |-> Markdown(full_response), suggestions |-> <<>>]

\* diagnose_plant_issue from response.text on: title, HTML and suggestions
DiagnosisFromResponse(full_response, crop_type) ==
  IF Find(full_response, Sentinel) # 0 THEN
    LET parts == SplitOnce(full_response, Sentinel)
        title_line == SplitLines(StripText(parts[1]))[1]
        title == StripText(Without(Without(title_line, "**Title:**"), "#"))
    IN [title |-> IF title # <<>> THEN Join(title) ELSE "Diagnosis for " \o crop_type,
        report_html |-> Markdown(parts[1]),
        suggestions |-> FirstThree(Suggestions(parts[2]))]
  ELSE
    [title |-> "Diagnosis for " \o crop_type, report_html |-> Markdown(full_response),
     suggestions |-> <<>>]

\* a generate_farm_plan without the `if not gemini_model` short-circuit
generate_farm_plan_unchecked(outcome) ==
  IF outcome \in BackendFailures THEN
    [plan_html |-> ErrPlanHtml, suggestions |-> <<>>, called |-> TRUE]
  ELSE
    LET result == PlanFromResponse(ResponseText(outcome))
    IN [plan_html |-> Join(result.plan_html), suggestions |-> result.suggestions,
        called |-> TRUE]

\* generate_farm_plan: the plan's HTML, the suggestions, and whether
\* gemini_model.generate_content was called
generate_farm_plan(outcome) ==
  IF ~configured THEN
    [plan_html |-> ErrUnavailableHtml, suggestions |-> <<>>, called |-> FALSE]
  ELSE IF outcome \in BackendFailures THEN
    [plan_html |-> ErrPlanHtml, suggestions |-> <<>>, called |-> TRUE]
  ELSE
    LET result == PlanFromResponse(ResponseText(outcome))
    IN [plan_html |-> Join(result.plan_html), suggestions |-> result.suggestions,
        called |-> TRUE]

\* diagnose_plant_issue: title, report HTML, suggestions, and whether the
\* backend was called
diagnose_plant_issue(crop_type, outcome) ==
  IF ~configured THEN
    [title |-> "Error", report_html |-> ErrUnavailableHtml, suggestions |-> <<>>,
     called |-> FALSE]
  ELSE IF outcome \in BackendFailures THEN
    [title |-> "Error", report_html |-> ErrDiagnosisHtml, suggestions |-> <<>>,
     called |-> TRUE]
  ELSE
    LET result == DiagnosisFromResponse(ResponseText(outcome), crop_type)
    IN [title |-> result.title, report_html |-> Join(result.report_html),
        suggestions |-> result.suggestions, called |-> TRUE]

\* generate_farm_plan is called and the backend answers full_response
GenerateFarmPlanText(full_response) ==
  /\ configured
  /\ last' = [Response("generate_farm_plan", "-", None, None, 0, "-", TRUE)
                EXCEPT !.sent = full_response,
                       !.result = <<PlanFromResponse(full_response)>>]
  /\ UNCHANGED <<configured, db, session, limiter, now, reqs, next_token>>

\* diagnose_plant_issue is called and the backend answers full_response
DiagnosePlantIssueText(full_response, crop_type) ==
  /\ configured
  /\ last' = [Response("diagnose_plant_issue", "-", None, None, 0, "-", TRUE)
                EXCEPT !.sent = full_response,
                       !.result = <<DiagnosisFromResponse(full_response, crop_type)>>]
  /\ UNCHANGED <<configured, db, session, limiter, now, reqs, next_token>>

(* --------------------------- /api/generate ---------------------------- *)
\* request bodies: which checks of api_generate they pass
ValidGenerateBody ==
  [has_fields |-> TRUE, budget_is_number |-> TRUE, budget |-> 500,
   location |-> "Lagos", location_len |-> 5, space_len |-> 12]
GenerateBodies ==
  { ValidGenerateBody,
    [ValidGenerateBody EXCEPT !.has_fields = FALSE],
    [ValidGenerateBody EXCEPT !.budget_is_number = FALSE],
    [ValidGenerateBody EXCEPT !.budget = 0],
    [ValidGenerateBody EXCEPT !.location_len = 1],
    [ValidGenerateBody EXCEPT !.space_len = 4] }

\* a validation without the `budget <= 0` test
GenerateValidationError_lax(data) ==
  IF ~data.has_fields THEN "Missing required fields"
  ELSE IF ~data.budget_is_number THEN "Invalid budget format"
  ELSE IF data.location_len < 2 THEN "Location must be at least 2 characters"
  ELSE IF data.space_len < 5 THEN "Please provide more details about your available space"
  ELSE ""

\* the 400 of api_generate's validation, "" when the body passes
GenerateValidationError(data) ==
  IF ~data.has_fields THEN "Missing required fields"
  ELSE IF ~data.budget_is_number THEN "Invalid budget format"
  ELSE IF data.budget <= 0 THEN "Budget must be a positive number"
  ELSE IF data.location_len < 2 THEN "Location must be at least 2 characters"
  ELSE IF data.space_len < 5 THEN "Please provide more details about your available space"
  ELSE ""

\* key_func of the route's limit: the user's id, else the function
\* get_remote_address itself (it is returned, not called)
GenerateHits(s) ==
  IF IsAuthenticated(s) THEN limiter.generate_user[session[s].user_id]
  ELSE limiter.generate_fn

GenerateHit(s) ==
  IF IsAuthenticated(s)
  THEN [limiter EXCEPT !.generate_user[session[s].user_id] = @ + 1]
  ELSE [limiter EXCEPT !.generate_fn = @ + 1]

\* a mutation of CacheGuestPlan: the plan is cached, the flag is not set
CacheGuestPlan_unflagged(sess, plan_html, data) ==
  [sess EXCEPT !.guest_plan = <<[plan_html |-> plan_html, location |-> data.location]>>]

\* session['free_plan_used'] = True; session['guest_plan'] = {...}
CacheGuestPlan(sess, plan_html, data) ==
  [sess EXCEPT !.free_plan_used = TRUE,
               !.guest_plan = <<[plan_html |-> plan_html, location |-> data.location]>>]

\* POST /api/generate from the client of session s at address addr
ApiGenerate(s, addr, data, outcome) ==
  LET u == session[s].user_id
  IN
  /\ UNCHANGED <<configured, users, chat_history, diagnosis_tables, now, reqs, next_token>>
  /\ IF GenerateHits(s) >= GenerateDailyLimit THEN
       /\ last' = Answer(data, "generate", s, u, None, 429, "rate_limited", FALSE)
       /\ UNCHANGED <<farm_plans, next_plan_id, session, limiter>>
     ELSE
       /\ limiter' = GenerateHit(s)
       /\ IF GenerateValidationError(data) # "" THEN
            /\ last' = Answer(data, "generate", s, u, None, 400, "validation", FALSE)
            /\ UNCHANGED <<farm_plans, next_plan_id, session>>
          ELSE
            LET result == generate_farm_plan(outcome)
            IN
            IF ContainsErrorMessage(result.plan_html) THEN
              /\ last' = Called(Answer(data, "generate", s, u, None, 500,
                                         IF result.plan_html = ErrUnavailableHtml
                                         THEN "unavailable" ELSE "error", FALSE),
                                result, outcome)
              /\ UNCHANGED <<farm_plans, next_plan_id, session>>
            ELSE IF ~IsAuthenticated(s) THEN
              IF session[s].free_plan_used THEN
                /\ last' = Called(Answer(data, "generate", s, u, None, 429, "free_plan_used", FALSE),
                                result, outcome)
                /\ UNCHANGED <<farm_plans, next_plan_id, session>>
              ELSE
                /\ session' = [session EXCEPT ![s] = CacheGuestPlan(@, result.plan_html, data)]
                /\ last' = Called(Answer(data, "generate", s, u, None, 200, "", FALSE), result, outcome)
                /\ UNCHANGED <<farm_plans, next_plan_id>>
            ELSE
              /\ ArtifactsStored < MaxArtifacts
              /\ farm_plans' = Append(farm_plans,
                   [id |-> next_plan_id, user_id |-> u, location |-> data.location,
                    plan_html |-> result.plan_html, showcase_id |-> None])
              /\ next_plan_id' = next_plan_id + 1
              /\ last' = Called(Answer(data, "generate", s, u, next_plan_id, 200, "", FALSE),
                                result, outcome)
              /\ UNCHANGED session

(* --------------------------- /api/diagnose ---------------------------- *)
ValidDiagnoseForm ==
  [has_parts |-> TRUE, filename |-> "leaf.jpg", crop_type |-> "maize",
   crop_len |-> 5, size_mb |-> 1, allowed_file |-> TRUE]
DiagnoseForms ==
  { ValidDiagnoseForm,
    [ValidDiagnoseForm EXCEPT !.has_parts = FALSE],
    [ValidDiagnoseForm EXCEPT !.filename = ""],
    [ValidDiagnoseForm EXCEPT !.crop_len = 1],
    [ValidDiagnoseForm EXCEPT !.size_mb = 6],
    [ValidDiagnoseForm EXCEPT !.allowed_file = FALSE] }

\* the 400 of api_diagnose's validation, "" when the form passes
DiagnoseValidationError(form) ==
  IF ~form.has_parts THEN "Missing file or crop type"
  ELSE IF form.filename = "" \/ form.crop_len = 0 THEN "No selected file or crop type"
  ELSE IF form.crop_len < 2 THEN "Crop type must be at least 2 characters"
  ELSE IF form.size_mb > 5 THEN "Image size must be less than 5MB"
  ELSE IF ~form.allowed_file THEN "Invalid file type. Please upload PNG, JPG, or JPEG"
  ELSE ""

\* POST /api/diagnose from the client of session s at address addr
ApiDiagnose(s, addr, form, outcome) ==
  LET u == session[s].user_id
  IN
  /\ UNCHANGED <<configured, users, plan_tables, session, now, reqs, next_token>>
  /\ IF ~IsAuthenticated(s) THEN
       /\ last' = Answer(form, "diagnose", s, u, None, 302, "login_required", FALSE)
       /\ UNCHANGED <<diagnoses, next_diagnosis_id, diagnoses_chat_history, limiter>>
     ELSE IF limiter.diagnose[addr] >= DiagnoseDailyLimit THEN
       /\ last' = Answer(form, "diagnose", s, u, None, 429, "rate_limited", FALSE)
       /\ UNCHANGED <<diagnoses, next_diagnosis_id, diagnoses_chat_history, limiter>>
     ELSE
       /\ limiter' = [limiter EXCEPT !.diagnose[addr] = @ + 1]
       /\ UNCHANGED diagnoses_chat_history
       /\ IF DiagnoseValidationError(form) # "" THEN
            /\ last' = Answer(form, "diagnose", s, u, None, 400, "validation", FALSE)
            /\ UNCHANGED <<diagnoses, next_diagnosis_id>>
          ELSE
            LET result == diagnose_plant_issue(form.crop_type, outcome)
            IN
            IF result.title = "Error" THEN
              /\ last' = Called(Answer(form, "diagnose", s, u, None, 500,
                                         IF result.report_html = ErrUnavailableHtml
                                         THEN "unavailable" ELSE "error", FALSE),
                                result, outcome)
              /\ UNCHANGED <<diagnoses, next_diagnosis_id>>
            ELSE
              /\ ArtifactsStored < MaxArtifacts
              /\ diagnoses' = Append(diagnoses,
                   [id |-> next_diagnosis_id, user_id |-> u, title |-> result.title,
                    crop_type |-> form.crop_type, report_html |-> result.report_html])
              /\ next_diagnosis_id' = next_diagnosis_id + 1
              /\ last' = Called(Answer(form, "diagnose", s, u, next_diagnosis_id, 200, "", FALSE),
                                result, outcome)

(* ------------------------ /api/knowledge_query ------------------------ *)
\* POST /api/knowledge_query; query_len is len(query.strip())
ApiKnowledgeQuery(s, query_len, outcome) ==
  LET u == session[s].user_id
  IN
  /\ UNCHANGED <<configured, db, session, limiter, now, reqs, next_token>>
  /\ IF query_len < MinQuestionLen THEN
       last' = Answer(query_len, "knowledge_query", s, u, None, 400, "validation", FALSE)
     ELSE IF ~configured THEN
       last' = Answer(query_len, "knowledge_query", s, u, None, 503, "unavailable", FALSE)
     ELSE IF outcome \in BackendFailures THEN
       last' = Answer(query_len, "knowledge_query", s, u, None, 500, "error", TRUE)
     ELSE
       last' = Answer(query_len, "knowledge_query", s, u, None, 200, "", TRUE)

(* ----------------------- stored chat history ------------------------- *)
\* a mutation of InsertByCreatedAt: the newer row is put first (ORDER BY ... DESC)
RECURSIVE InsertByCreatedAt_desc(_, _)
InsertByCreatedAt_desc(sorted, row) ==
  IF sorted = <<>> THEN <<row>>
  ELSE IF Head(sorted).created_at > row.created_at
       THEN <<Head(sorted)>> \o InsertByCreatedAt_desc(Tail(sorted), row)
       ELSE <<row>> \o sorted

\* one row sorted into rows already ordered by created_at; rows of the same
\* second stay in the order they were scanned (rowid order)
RECURSIVE InsertByCreatedAt(_, _)
InsertByCreatedAt(sorted, row) ==
  IF sorted = <<>> THEN <<row>>
  ELSE IF Head(sorted).created_at <= row.created_at
       THEN <<Head(sorted)>> \o InsertByCreatedAt(Tail(sorted), row)
       ELSE <<row>> \o sorted

\* ORDER BY created_at ASC over rows scanned in rowid order
RECURSIVE OrderByCreatedAt(_)
OrderByCreatedAt(rows) ==
  IF rows = <<>> THEN <<>>
  ELSE InsertByCreatedAt(OrderByCreatedAt(SubSeq(rows, 1, Len(rows) - 1)), rows[Len(rows)])

\* SELECT role, content FROM chat_history WHERE plan_id = ? ORDER BY created_at ASC
PlanHistory(plan_id) ==
  LET Match(row) == row.plan_id = plan_id
      rows == OrderByCreatedAt(SelectSeq(chat_history, Match))
  IN [i \in DOMAIN rows |-> [role |-> rows[i].role, content |-> rows[i].content]]

\* SELECT role, content FROM diagnoses_chat_history WHERE diagnosis_id = ?
\* ORDER BY created_at ASC
DiagnosisHistory(diagnosis_id) ==
  LET Match(row) == row.diagnosis_id = diagnosis_id
      rows == OrderByCreatedAt(SelectSeq(diagnoses_chat_history, Match))
  IN [i \in DOMAIN rows |-> [role |-> rows[i].role, content |-> rows[i].content]]

\* INSERT INTO chat_history (plan_id, role, content) VALUES (?, ?, ?)
PlanTurn(plan_id, role, content) ==
  [plan_id |-> plan_id, role |-> role, content |-> content, created_at |-> now]

\* INSERT INTO diagnoses_chat_history (diagnosis_id, role, content) VALUES (?, ?, ?)
DiagnosisTurn(diagnosis_id, role, content) ==
  [diagnosis_id |-> diagnosis_id, role |-> role, content |-> content, created_at |-> now]

\* str.capitalize() of a stored role
Capitalize(role) ==
  CASE role = "user" -> "User"
    [] role = "assistant" -> "Assistant"
    [] OTHER -> role

\* the "{Role}: {content}" lines of the stored turns
HistoryLines(history) ==
  [i \in DOMAIN history |-> Capitalize(history[i].role) \o ": " \o history[i].content]

\* a mutation of PlanConversation: the stored turns are left out
PlanConversation_bare(plan, history, question) ==
  <<"Initial Farm Plan:", plan.plan_html,
    "User's new question: " \o question, "Provide a helpful, practical answer:">>

\* the text api_follow_up sends, line by line
PlanConversation(plan, history, question) ==
  <<"Initial Farm Plan:", plan.plan_html>> \o HistoryLines(history)
    \o <<"User's new question: " \o question, "Provide a helpful, practical answer:">>

\* the text api_diagnose_follow_up sends, line by line
DiagnosisConversation(diagnosis, history, question) ==
  <<"Initial Diagnosis:", diagnosis.report_html>> \o HistoryLines(history)
    \o <<"User's new question: " \o question, "Provide a helpful answer:">>

(* ------------------- /api/follow_up and its twin ---------------------- *)
\* question.strip()
Strip(question) == IF question = "  a  " THEN "a" ELSE question

Questions == {"", "  a  ", "why?"}

\* the 400 of the follow-up handlers' validation, "" when the data passes
FollowUpValidationError(id, question) ==
  IF id = None \/ question = "" THEN "Missing data"
  ELSE IF Len(Strip(question)) < MinQuestionLen THEN "Question must be at least 3 characters"
  ELSE ""

\* the slot a new request takes
FreeSlot(r) == reqs[r] = Idle /\ \A q \in ReqIds : reqs[q] = Idle => r <= q

TurnsStored == Len(chat_history) + Len(diagnoses_chat_history)

\* a mutation of UserTurnStored: the question is not stored before the call
UserTurnStored_late(table, turn) == table

\* a mutation of UserTurnStored: the question is put before the stored rows
UserTurnStored_first(table, turn) == <<turn>> \o table

\* the user turn is inserted and committed
UserTurnStored(table, turn) == Append(table, turn)

\* api_follow_up up to the point where it waits for gemini_model.generate_content
FollowUpBegin(r, s, plan_id, question) ==
  LET u == session[s].user_id
      plan == OwnedPlan(plan_id, u)
  IN
  /\ FreeSlot(r)
  /\ UNCHANGED <<configured, users, farm_plans, next_plan_id, diagnosis_tables,
                 session, limiter, now, next_token>>
  /\ IF ~IsAuthenticated(s) THEN
       /\ last' = Answer(question, "follow_up", s, u, plan_id, 302, "login_required", FALSE)
       /\ UNCHANGED <<chat_history, reqs>>
     ELSE IF FollowUpValidationError(plan_id, question) # "" THEN
       /\ last' = Answer(question, "follow_up", s, u, plan_id, 400, "validation", FALSE)
       /\ UNCHANGED <<chat_history, reqs>>
     ELSE IF plan = {} THEN
       /\ last' = Answer(question, "follow_up", s, u, plan_id, 404, "not_found", FALSE)
       /\ UNCHANGED <<chat_history, reqs>>
     ELSE
       /\ TurnsStored < MaxTurns
       /\ chat_history' = UserTurnStored(chat_history, PlanTurn(plan_id, "user", question))
       /\ IF ~configured THEN
            /\ last' = Answer(question, "follow_up", s, u, plan_id, 503, "unavailable", FALSE)
            /\ UNCHANGED reqs
          ELSE
            /\ reqs' = [reqs EXCEPT ![r] =
                 [kind |-> "follow_up", sess |-> s, user |-> u, id |-> plan_id]]
            /\ last' = [Waiting("follow_up", s, u, plan_id,
                          PlanConversation(CHOOSE p \in plan : TRUE,
                                           PlanHistory(plan_id), question))
                          EXCEPT !.request = <<question>>]

\* api_follow_up from the backend's answer on
FollowUpEnd(r, outcome) ==
  LET req == reqs[r]
  IN
  /\ req.kind = "follow_up"
  /\ reqs' = [reqs EXCEPT ![r] = Idle]
  /\ UNCHANGED <<configured, users, farm_plans, next_plan_id, diagnosis_tables,
                 session, limiter, now, next_token>>
  /\ IF outcome \in BackendFailures THEN
       /\ last' = Response("follow_up", req.sess, req.user, req.id, 500, "error", FALSE)
       /\ UNCHANGED chat_history
     ELSE
       /\ TurnsStored < MaxTurns
       /\ chat_history' = Append(chat_history, PlanTurn(req.id, "assistant", outcome))
       /\ last' = Response("follow_up", req.sess, req.user, req.id, 200, "", FALSE)

\* api_diagnose_follow_up up to the point where it waits for the backend
DiagnoseFollowUpBegin(r, s, diagnosis_id, question) ==
  LET u == session[s].user_id
      diagnosis == OwnedDiagnosis(diagnosis_id, u)
  IN
  /\ FreeSlot(r)
  /\ UNCHANGED <<configured, users, plan_tables, diagnoses, next_diagnosis_id,
                 session, limiter, now, next_token>>
  /\ IF ~IsAuthenticated(s) THEN
       /\ last' = Answer(question, "diagnose_follow_up", s, u, diagnosis_id, 302, "login_required", FALSE)
       /\ UNCHANGED <<diagnoses_chat_history, reqs>>
     ELSE IF FollowUpValidationError(diagnosis_id, question) # "" THEN
       /\ last' = Answer(question, "diagnose_follow_up", s, u, diagnosis_id, 400, "validation", FALSE)
       /\ UNCHANGED <<diagnoses_chat_history, reqs>>
     ELSE IF diagnosis = {} THEN
       /\ last' = Answer(question, "diagnose_follow_up", s, u, diagnosis_id, 404, "not_found", FALSE)
       /\ UNCHANGED <<diagnoses_chat_history, reqs>>
     ELSE
       /\ TurnsStored < MaxTurns
       /\ diagnoses_chat_history' =
            UserTurnStored(diagnoses_chat_history, DiagnosisTurn(diagnosis_id, "user", question))
       /\ IF ~configured THEN
            /\ last' = Answer(question, "diagnose_follow_up", s, u, diagnosis_id, 503, "unavailable", FALSE)
            /\ UNCHANGED reqs
          ELSE
            /\ reqs' = [reqs EXCEPT ![r] =
                 [kind |-> "diagnose_follow_up", sess |-> s, user |-> u, id |-> diagnosis_id]]
            /\ last' = [Waiting("diagnose_follow_up", s, u, diagnosis_id,
                          DiagnosisConversation(CHOOSE d \in diagnosis : TRUE,
                                                DiagnosisHistory(diagnosis_id), question))
                          EXCEPT !.request = <<question>>]

\* api_diagnose_follow_up from the backend's answer on
DiagnoseFollowUpEnd(r, outcome) ==
  LET req == reqs[r]
  IN
  /\ req.kind = "diagnose_follow_up"
  /\ reqs' = [reqs EXCEPT ![r] = Idle]
  /\ UNCHANGED <<configured, users, plan_tables, diagnoses, next_diagnosis_id,
                 session, limiter, now, next_token>>
  /\ IF outcome \in BackendFailures THEN
       /\ last' = Response("diagnose_follow_up", req.sess, req.user, req.id, 500, "error", FALSE)
       /\ UNCHANGED diagnoses_chat_history
     ELSE
       /\ TurnsStored < MaxTurns
       /\ diagnoses_chat_history' =
            Append(diagnoses_chat_history, DiagnosisTurn(req.id, "assistant", outcome))
       /\ last' = Response("diagnose_follow_up", req.sess, req.user, req.id, 200, "", FALSE)

(* ------------------------- get and delete ----------------------------- *)
\* GET /api/get_plan/<id>
GetPlan(s, plan_id) ==
  LET u == session[s].user_id
  IN
  /\ UNCHANGED <<configured, db, session, limiter, now, reqs, next_token>>
  /\ IF ~IsAuthenticated(s) THEN
       last' = Response("get_plan", s, u, plan_id, 302, "login_required", FALSE)
     ELSE IF OwnedPlan(plan_id, u) = {} THEN
       last' = Response("get_plan", s, u, plan_id, 404, "not_found", FALSE)
     ELSE
       last' = Response("get_plan", s, u, plan_id, 200, "", FALSE)

\* a mutation of WithoutPlanTurns: the plan's turns are left in the table
WithoutPlanTurns_kept(plan_id) == chat_history

\* DELETE FROM chat_history WHERE plan_id = ?
WithoutPlanTurns(plan_id) ==
  LET Keep(row) == row.plan_id # plan_id
  IN SelectSeq(chat_history, Keep)

\* DELETE FROM diagnoses_chat_history WHERE diagnosis_id = ?
WithoutDiagnosisTurns(diagnosis_id) ==
  LET Keep(row) == row.diagnosis_id # diagnosis_id
  IN SelectSeq(diagnoses_chat_history, Keep)

\* DELETE /api/delete_plan/<id>
DeletePlan(s, plan_id) ==
  LET u == session[s].user_id
      Keep(p) == ~(p.id = plan_id /\ p.user_id = u)
  IN
  /\ UNCHANGED <<configured, users, next_plan_id, diagnosis_tables, session,
                 limiter, now, reqs, next_token>>
  /\ IF ~IsAuthenticated(s) THEN
       /\ last' = Response("delete_plan", s, u, plan_id, 302, "login_required", FALSE)
       /\ UNCHANGED <<farm_plans, chat_history>>
     ELSE IF OwnedPlan(plan_id, u) = {} THEN
       /\ last' = Response("delete_plan", s, u, plan_id, 404, "not_found", FALSE)
       /\ UNCHANGED <<farm_plans, chat_history>>
     ELSE
       /\ chat_history' = WithoutPlanTurns(plan_id)
       /\ farm_plans' = SelectSeq(farm_plans, Keep)
       /\ last' = Response("delete_plan", s, u, plan_id, 200, "", FALSE)

\* GET /api/get_diagnosis/<id>
GetDiagnosis(s, diagnosis_id) ==
  LET u == session[s].user_id
  IN
  /\ UNCHANGED <<configured, db, session, limiter, now, reqs, next_token>>
  /\ IF ~IsAuthenticated(s) THEN
       last' = Response("get_diagnosis", s, u, diagnosis_id, 302, "login_required", FALSE)
     ELSE IF OwnedDiagnosis(diagnosis_id, u) = {} THEN
       last' = Response("get_diagnosis", s, u, diagnosis_id, 404, "not_found", FALSE)
     ELSE
       last' = Response("get_diagnosis", s, u, diagnosis_id, 200, "", FALSE)

\* DELETE /api/delete_diagnosis/<id>
DeleteDiagnosis(s, diagnosis_id) ==
  LET u == session[s].user_id
      Keep(d) == ~(d.id = diagnosis_id /\ d.user_id = u)
  IN
  /\ UNCHANGED <<configured, users, plan_tables, next_diagnosis_id, session,
                 limiter, now, reqs, next_token>>
  /\ IF ~IsAuthenticated(s) THEN
       /\ last' = Response("delete_diagnosis", s, u, diagnosis_id, 302, "login_required", FALSE)
       /\ UNCHANGED <<diagnoses, diagnoses_chat_history>>
     ELSE IF OwnedDiagnosis(diagnosis_id, u) = {} THEN
       /\ last' = Response("delete_diagnosis", s, u, diagnosis_id, 404, "not_found", FALSE)
       /\ UNCHANGED <<diagnoses, diagnoses_chat_history>>
     ELSE
       /\ diagnoses_chat_history' = WithoutDiagnosisTurns(diagnosis_id)
       /\ diagnoses' = SelectSeq(diagnoses, Keep)
       /\ last' = Response("delete_diagnosis", s, u, diagnosis_id, 200, "", FALSE)

(* ----------------------------- showcases ----------------------------- *)
\* SELECT p.*, u.name FROM farm_plans p JOIN users u ON p.user_id = u.id
\* WHERE showcase_id = ?
ShowcaseRows(showcase_id) ==
  LET Match(p) == /\ p.showcase_id = showcase_id
                  /\ \E u \in Range(users) : u.id = p.user_id
  IN SelectSeq(farm_plans, Match)

\* GET /showcase/<showcase_id>: the first matching plan, or 404
Showcase(s, showcase_id) ==
  LET u == session[s].user_id
      rows == ShowcaseRows(showcase_id)
  IN
  /\ UNCHANGED <<configured, db, session, limiter, now, reqs, next_token>>
  /\ IF rows = <<>> THEN
       last' = Response("showcase", s, u, None, 404, "not_found", FALSE)
     ELSE
       last' = [Response("showcase", s, u, Head(rows).id, 200, "", FALSE)
                  EXCEPT !.showcase_id = showcase_id]

\* api_create_showcase up to its last SELECT: the ownership lookup and the read
\* of the stored showcase_id (two SELECTs of the same row, taken as one read)
CreateShowcaseBegin(r, s, plan_id) ==
  LET u == session[s].user_id
      plan == OwnedPlan(plan_id, u)
  IN
  /\ FreeSlot(r)
  /\ UNCHANGED <<configured, db, session, limiter, now, next_token>>
  /\ IF ~IsAuthenticated(s) THEN
       /\ last' = Response("create_showcase", s, u, plan_id, 302, "login_required", FALSE)
       /\ UNCHANGED reqs
     ELSE IF plan_id = None THEN
       /\ last' = Response("create_showcase", s, u, plan_id, 400, "validation", FALSE)
       /\ UNCHANGED reqs
     ELSE IF plan = {} THEN
       /\ last' = Response("create_showcase", s, u, plan_id, 404, "not_found", FALSE)
       /\ UNCHANGED reqs
     ELSE IF (CHOOSE p \in plan : TRUE).showcase_id # None THEN
       /\ last' = [Response("create_showcase", s, u, plan_id, 200, "", FALSE)
                     EXCEPT !.showcase_id = (CHOOSE p \in plan : TRUE).showcase_id]
       /\ UNCHANGED reqs
     ELSE
       /\ reqs' = [reqs EXCEPT ![r] =
            [kind |-> "create_showcase", sess |-> s, user |-> u, id |-> plan_id]]
       /\ last' = Response("create_showcase", s, u, plan_id, 0, "running", FALSE)

\* api_create_showcase from uuid.uuid4() on: a value never drawn before is
\* written to the rows the UPDATE matches, committed and returned
CreateShowcaseEnd(r) ==
  LET req == reqs[r]
      showcase_id == next_token + 1
  IN
  /\ req.kind = "create_showcase"
  /\ next_token < MaxTokens
  /\ next_token' = showcase_id
  /\ reqs' = [reqs EXCEPT ![r] = Idle]
  /\ farm_plans' = [i \in DOMAIN farm_plans |->
       IF farm_plans[i].id = req.id /\ farm_plans[i].user_id = req.user
       THEN [farm_plans[i] EXCEPT !.showcase_id = showcase_id]
       ELSE farm_plans[i]]
  /\ last' = [Response("create_showcase", req.sess, req.user, req.id, 200, "", FALSE)
                EXCEPT !.showcase_id = showcase_id]
  /\ UNCHANGED <<configured, users, next_plan_id, chat_history, diagnosis_tables,
                 session, limiter, now>>

(* -------------------------- specifications ---------------------------- *)
RegisterForms == {<<>>} \cup {<<e>> : e \in Emails}

\* the guest gate: one browser session that generates, registers, logs in and
\* out, against a backend that answers or fails
NextGate ==
  \/ Restart
  \/ NewDay
  \/ \E form \in RegisterForms : Register("s1", form)
  \/ \E e \in Emails, ok \in BOOLEAN : Login("s1", e, ok)
  \/ Logout("s1")
  \/ \E data \in GenerateBodies, o \in {"textA"} \cup BackendFailures :
       ApiGenerate("s1", "10.0.0.1", data, o)

SpecGate == Init /\ [][NextGate]_vars

\* the order in which the users of the scenarios below register
EmailOrder == <<"ada@farm", "bob@farm">>

\* stored conversations: one browser whose user registers both accounts, logs in
\* as either, works on plans or on diagnoses, chats (one question at a time),
\* reads and deletes, while the seconds pass between the turns
NextChat ==
  \/ TurnsStored > 0 /\ Tick
  \/ Len(users) < Len(EmailOrder) /\ Register("s1", <<EmailOrder[Len(users) + 1]>>)
  \/ \E e \in Emails : Login("s1", e, TRUE)
  \/ /\ IsAuthenticated("s1") /\ next_diagnosis_id = 1
     /\ ApiGenerate("s1", "10.0.0.1", ValidGenerateBody, "textA")
  \/ next_plan_id = 1 /\ ApiDiagnose("s1", "10.0.0.1", ValidDiagnoseForm, "textA")
  \/ \E id \in 1..MaxArtifacts : FollowUpBegin(1, "s1", id, "why?")
  \/ \E o \in {"textA", Raises} : FollowUpEnd(1, o)
  \/ \E id \in 1..MaxArtifacts : DiagnoseFollowUpBegin(1, "s1", id, "why?")
  \/ \E o \in {"textA", Raises} : DiagnoseFollowUpEnd(1, o)
  \/ \E id \in 1..MaxArtifacts : GetPlan("s1", id)
  \/ \E id \in 1..MaxArtifacts : DeletePlan("s1", id)
  \/ \E id \in 1..MaxArtifacts : GetDiagnosis("s1", id)
  \/ \E id \in 1..MaxArtifacts : DeleteDiagnosis("s1", id)

SpecChat == Init /\ [][NextChat]_vars

\* showcases: the owner and another user create showcase tokens for plans,
\* with up to two requests under way at once, delete plans and open the
\* public page of a token
NextShowcase ==
  \/ Len(users) < Len(EmailOrder) /\ Register("s1", <<EmailOrder[Len(users) + 1]>>)
  \/ \E e \in Emails : Login("s1", e, TRUE)
  \/ IsAuthenticated("s1") /\ ApiGenerate("s1", "10.0.0.1", ValidGenerateBody, "textA")
  \/ \E r \in ReqIds, id \in 0..MaxArtifacts : CreateShowcaseBegin(r, "s1", id)
  \/ \E r \in ReqIds : CreateShowcaseEnd(r)
  \/ \E id \in 1..MaxArtifacts : DeletePlan("s1", id)
  \/ \E t \in 1..MaxTokens : Showcase("s1", t)

SpecShowcase == Init /\ [][NextShowcase]_vars

\* the backend: a guest who then registers and logs in, and every AI-invoking
\* handler runs against a backend that is configured or not (the process is
\* restarted with or without the key) and that answers or fails
NextBackend ==
  \/ Restart
  \/ users = <<>> /\ Register("s1", <<EmailOrder[1]>>)
  \/ ~IsAuthenticated("s1") /\ Login("s1", EmailOrder[1], TRUE)
  \/ \E o \in {"textA"} \cup BackendFailures :
       ApiGenerate("s1", "10.0.0.1", ValidGenerateBody, o)
  \/ \E o \in {"textA"} \cup BackendFailures :
       ApiDiagnose("s1", "10.0.0.1", ValidDiagnoseForm, o)
  \/ \E o \in {"textA"} \cup BackendFailures : ApiKnowledgeQuery("s1", MinQuestionLen, o)
  \/ \E id \in 1..MaxArtifacts : FollowUpBegin(1, "s1", id, "why?")
  \/ \E o \in {"textA", Raises} : FollowUpEnd(1, o)
  \/ \E id \in 1..MaxArtifacts : DiagnoseFollowUpBegin(1, "s1", id, "why?")
  \/ \E o \in {"textA", Raises} : DiagnoseFollowUpEnd(1, o)

SpecBackend == Init /\ [][NextBackend]_vars

\* the lines a response text can hold before the sentinel
PrimaryLines == {<<"**Title:**", " ", "x">>, <<"#", " ", "x">>, <<"x">>, <<>>}
\* the lines a response text can hold after the sentinel
SuggestionLines ==
  {<<"1", "x">>, <<" ", "2", Sentinel, " ">>, <<"4", "x">>, <<"-", " ", "x">>, <<" ">>}

\* the sequences of at most n elements of S
SeqsUpTo(S, n) == UNION {[1..k -> S] : k \in 0..n}

RECURSIVE JoinLines(_)
\* the lines put one after the other, "\n" between them
JoinLines(lines) ==
  IF lines = <<>> THEN <<>>
  ELSE IF Len(lines) = 1 THEN lines[1]
  ELSE lines[1] \o <<"\n">> \o JoinLines(Tail(lines))

\* the response texts: some lines, and with or without the sentinel and the
\* lines after it
ResponseTexts ==
  {JoinLines(p) : p \in SeqsUpTo(PrimaryLines, MaxPrimaryLines)}
  \cup {JoinLines(p) \o <<"\n", Sentinel, "\n">> \o JoinLines(q) :
          p \in SeqsUpTo(PrimaryLines, MaxPrimaryLines),
          q \in SeqsUpTo(SuggestionLines, MaxSuggestionLines)}

\* post-processing: a generation function is called once, on any response text
NextParse ==
  \/ /\ last.op = "init"
     /\ \E full_response \in ResponseTexts : GenerateFarmPlanText(full_response)
  \/ /\ last.op = "init"
     /\ \E full_response \in ResponseTexts : DiagnosePlantIssueText(full_response, "maize")

SpecParse == Init /\ [][NextParse]_vars

\* validation: a guest who registers and logs in sends well-formed and
\* ill-formed requests to every handler that validates its input
NextValidate ==
  \/ NewDay
  \/ users = <<>> /\ Register("s1", <<EmailOrder[1]>>)
  \/ ~IsAuthenticated("s1") /\ Login("s1", EmailOrder[1], TRUE)
  \/ \E data \in GenerateBodies : ApiGenerate("s1", "10.0.0.1", data, "textA")
  \/ \E form \in DiagnoseForms : ApiDiagnose("s1", "10.0.0.1", form, "textA")
  \/ \E len \in {0, MinQuestionLen} : ApiKnowledgeQuery("s1", len, "textA")
  \/ \E id \in 0..MaxArtifacts, q \in Questions : FollowUpBegin(1, "s1", id, q)
  \/ FollowUpEnd(1, "textA")
  \/ \E id \in 0..MaxArtifacts, q \in Questions : DiagnoseFollowUpBegin(1, "s1", id, q)
  \/ DiagnoseFollowUpEnd(1, "textA")

SpecValidate == Init /\ [][NextValidate]_vars

\* request.remote_addr of each client
ClientAddr == [s \in Sessions |-> IF s = "s1" THEN "10.0.0.1" ELSE "10.0.0.2"]

\* the daily caps: two clients at different addresses, guests or logged in to
\* the one registered account, generate and diagnose until the caps answer
NextLimit ==
  \/ NewDay
  \/ users = <<>> /\ Register("s1", <<EmailOrder[1]>>)
  \/ \E s \in Sessions : ~IsAuthenticated(s) /\ Login(s, EmailOrder[1], TRUE)
  \/ \E s \in Sessions : ApiGenerate(s, ClientAddr[s], ValidGenerateBody, "textA")
  \/ \E s \in Sessions : ApiDiagnose(s, ClientAddr[s], ValidDiagnoseForm, "textA")

SpecLimit == Init /\ [][NextLimit]_vars

\* simultaneous follow-ups: the owner of a plan asks from two tabs of one
\* browser, up to two requests waiting for the backend at once, while the
\* seconds pass
NextRace ==
  \/ TurnsStored > 0 /\ Tick
  \/ users = <<>> /\ Register("s1", <<EmailOrder[1]>>)
  \/ ~IsAuthenticated("s1") /\ Login("s1", EmailOrder[1], TRUE)
  \/ ApiGenerate("s1", "10.0.0.1", ValidGenerateBody, "textA")
  \/ \E r \in ReqIds, id \in 1..MaxArtifacts : FollowUpBegin(r, "s1", id, "why?")
  \/ \E r \in ReqIds, o \in {"textA", Raises} : FollowUpEnd(r, o)

SpecRace == Init /\ [][NextRace]_vars

(* ------------------------------ claims -------------------------------- *)
\* C1: in a guest session whose free-plan flag is already set, every further
\* POST /api/generate with a well-formed body, made while unauthenticated,
\* answers HTTP 429.
C1_LaterGuestGenerateIs429 ==
  [][(/\ last'.op = "generate"
      /\ last'.user = None
      /\ last'.err # "validation"
      /\ session[last'.sess].free_plan_used)
     => last'.status = 429]_vars

\* C2: a successful registration in a session that holds a cached guest plan
\* appends exactly one farm_plans row, owned by the user just created and
\* carrying the cached plan, and removes the plan from the session; a successful
\* registration without a cached plan leaves farm_plans as it was.
C2_RegisterCommitsGuestPlanOnce ==
  [][(last'.op = "register" /\ last'.err = "registered")
     => LET s == last'.sess
            cached == session[s].guest_plan
        IN /\ last'.id = Len(users) + 1
           /\ Len(users') = Len(users) + 1
           /\ users'[Len(users')].id = last'.id
           /\ session'[s].guest_plan = <<>>
           /\ IF cached # <<>>
              THEN /\ Len(farm_plans') = Len(farm_plans) + 1
                   /\ SubSeq(farm_plans', 1, Len(farm_plans)) = farm_plans
                   /\ farm_plans'[Len(farm_plans')].user_id = last'.id
                   /\ farm_plans'[Len(farm_plans')].plan_html = cached[1].plan_html
                   /\ farm_plans'[Len(farm_plans')].location = cached[1].location
              ELSE farm_plans' = farm_plans]_vars

\* C2 witness: a registration has just committed the session's guest plan
C2_Witness ==
  /\ last.op = "register" /\ last.err = "registered"
  /\ session[last.sess].free_plan_used
  /\ session[last.sess].guest_plan = <<>>
  /\ \E p \in Range(farm_plans) : p.user_id = last.id

\* the step is the arrival of a request: no request in flight ends in it
Arrival == \A r \in ReqIds : reqs[r] # Idle => reqs'[r] = reqs[r]

\* C3: for a plan or diagnosis id that the requesting authenticated user does not
\* own (no such row, or a row of another owner), get, delete and a well-formed
\* follow_up answer 404 and leave every plan, diagnosis and chat row as it was.
C3_NotOwnedIsNotFound ==
  [][(/\ Arrival
      /\ last'.user # None
      /\ last'.err # "validation"
      /\ \/ /\ last'.op \in {"get_plan", "delete_plan", "follow_up"}
            /\ ~\E p \in Range(farm_plans) : p.id = last'.id /\ p.user_id = last'.user
         \/ /\ last'.op \in {"get_diagnosis", "delete_diagnosis", "diagnose_follow_up"}
            /\ ~\E d \in Range(diagnoses) : d.id = last'.id /\ d.user_id = last'.user)
     => /\ last'.status = 404
        /\ UNCHANGED <<farm_plans, chat_history, diagnoses, diagnoses_chat_history>>]_vars

\* C3 witness: a follow-up on a plan that exists under another owner was
\* answered 404
C3_Witness ==
  /\ last.op = "follow_up" /\ last.status = 404 /\ last.user # None
  /\ \E p \in Range(farm_plans) : p.id = last.id /\ p.user_id # last.user
  /\ chat_history # <<>>

\* C4: when the owner's delete_plan(id) succeeds, no chat_history row with
\* plan_id = id and no farm_plans row with that id is left; a deleted id never
\* comes back, and get_plan on an id without a row answers 404; likewise for
\* delete_diagnosis, diagnoses_chat_history and get_diagnosis.
C4_DeleteRemovesPlanAndTurns ==
  [][/\ (last'.op = "delete_plan" /\ last'.status = 200)
          => /\ \A i \in DOMAIN chat_history' : chat_history'[i].plan_id # last'.id
             /\ \A p \in Range(farm_plans') : p.id # last'.id
     /\ (last'.op = "delete_diagnosis" /\ last'.status = 200)
          => /\ \A i \in DOMAIN diagnoses_chat_history' :
                  diagnoses_chat_history'[i].diagnosis_id # last'.id
             /\ \A d \in Range(diagnoses') : d.id # last'.id
     /\ \A id \in 1..MaxArtifacts :
          /\ (id < next_plan_id /\ \A p \in Range(farm_plans) : p.id # id)
               => \A p \in Range(farm_plans') : p.id # id
          /\ (id < next_diagnosis_id /\ \A d \in Range(diagnoses) : d.id # id)
               => \A d \in Range(diagnoses') : d.id # id
     /\ (last'.op = "get_plan" /\ last'.user # None
          /\ \A p \in Range(farm_plans) : p.id # last'.id) => last'.status = 404
     /\ (last'.op = "get_diagnosis" /\ last'.user # None
          /\ \A d \in Range(diagnoses) : d.id # last'.id) => last'.status = 404]_vars

\* C4 witness: a plan was deleted while a follow-up on it, whose question was
\* already stored, waits for the backend; the plan's turns are gone
C4_Witness ==
  /\ last.op = "delete_plan" /\ last.status = 200
  /\ \E r \in ReqIds : reqs[r].kind = "follow_up" /\ reqs[r].id = last.id
  /\ \A i \in DOMAIN chat_history : chat_history[i].plan_id # last.id

\* C5: the step of a follow-up that sends the transcript to the backend has
\* appended the user turn to the stored history; when the backend call fails
\* the handler answers the generic 500 and the stored history stays as it is
\* (the question recorded, no assistant turn); when it succeeds the answer is
\* appended as an assistant turn, after every turn stored so far.
C5_UserTurnBeforeCall ==
  [][/\ (last'.op = "follow_up" /\ last'.called)
          => /\ Len(chat_history') = Len(chat_history) + 1
             /\ SubSeq(chat_history', 1, Len(chat_history)) = chat_history
             /\ chat_history'[Len(chat_history')].plan_id = last'.id
             /\ chat_history'[Len(chat_history')].role = "user"
             /\ last'.sent[Len(last'.sent) - 1] =
                  "User's new question: " \o chat_history'[Len(chat_history')].content
     /\ (last'.op = "diagnose_follow_up" /\ last'.called)
          => /\ Len(diagnoses_chat_history') = Len(diagnoses_chat_history) + 1
             /\ SubSeq(diagnoses_chat_history', 1, Len(diagnoses_chat_history))
                  = diagnoses_chat_history
             /\ diagnoses_chat_history'[Len(diagnoses_chat_history')].diagnosis_id = last'.id
             /\ diagnoses_chat_history'[Len(diagnoses_chat_history')].role = "user"
     /\ (~Arrival /\ last'.op \in {"follow_up", "diagnose_follow_up"})
          => \/ /\ last'.status = 500 /\ last'.err = "error"
                /\ UNCHANGED <<chat_history, diagnoses_chat_history>>
             \/ /\ last'.status = 200 /\ last'.op = "follow_up"
                /\ Len(chat_history') = Len(chat_history) + 1
                /\ SubSeq(chat_history', 1, Len(chat_history)) = chat_history
                /\ chat_history'[Len(chat_history')].plan_id = last'.id
                /\ chat_history'[Len(chat_history')].role = "assistant"
                /\ UNCHANGED diagnoses_chat_history
             \/ /\ last'.status = 200 /\ last'.op = "diagnose_follow_up"
                /\ Len(diagnoses_chat_history') = Len(diagnoses_chat_history) + 1
                /\ SubSeq(diagnoses_chat_history', 1, Len(diagnoses_chat_history))
                     = diagnoses_chat_history
                /\ diagnoses_chat_history'[Len(diagnoses_chat_history')].diagnosis_id = last'.id
                /\ diagnoses_chat_history'[Len(diagnoses_chat_history')].role = "assistant"
                /\ UNCHANGED chat_history]_vars

\* C5 witness: the backend call of a follow-up failed; the handler answered 500
\* and the plan's last stored turn is the question
C5_Witness ==
  /\ last.op = "follow_up" /\ last.status = 500
  /\ chat_history # <<>>
  /\ chat_history[Len(chat_history)].plan_id = last.id
  /\ chat_history[Len(chat_history)].role = "user"

\* C6: the transcript a follow-up sends holds the stored artifact, then one
\* "{Role}: {content}" line per turn stored for that artifact before the
\* request, in the order the turns were appended, then the new question.
C6_TranscriptOrder ==
  [][/\ (last'.op = "follow_up" /\ last'.called)
          => LET Mine(row) == row.plan_id = last'.id
                 prior == SelectSeq(chat_history, Mine)
                 sent == last'.sent
             IN /\ Len(sent) = Len(prior) + 4
                /\ \E p \in Range(farm_plans) : p.id = last'.id /\ sent[2] = p.plan_html
                /\ \A i \in DOMAIN prior :
                     sent[2 + i] = (IF prior[i].role = "user" THEN "User: " ELSE "Assistant: ")
                                     \o prior[i].content
                /\ sent[Len(sent) - 1] =
                     "User's new question: " \o chat_history'[Len(chat_history')].content
     /\ (last'.op = "diagnose_follow_up" /\ last'.called)
          => LET Mine(row) == row.diagnosis_id = last'.id
                 prior == SelectSeq(diagnoses_chat_history, Mine)
                 sent == last'.sent
             IN /\ Len(sent) = Len(prior) + 4
                /\ \E d \in Range(diagnoses) : d.id = last'.id /\ sent[2] = d.report_html
                /\ \A i \in DOMAIN prior :
                     sent[2 + i] = (IF prior[i].role = "user" THEN "User: " ELSE "Assistant: ")
                                     \o prior[i].content
                /\ sent[Len(sent) - 1] =
                     "User's new question: "
                       \o diagnoses_chat_history'[Len(diagnoses_chat_history')].content]_vars

\* C6 witness: history [(user, Q1), (assistant, A1)], stored in different
\* seconds, and a new question were sent as artifact, "User: Q1",
\* "Assistant: A1", question
C6_Witness ==
  /\ last.op = "follow_up" /\ last.called
  /\ Len(last.sent) = 6
  /\ last.sent[2] = "<p>textA</p>"
  /\ last.sent[3] = "User: why?"
  /\ last.sent[4] = "Assistant: textA"
  /\ last.sent[5] = "User's new question: why?"
  /\ chat_history[1].created_at < chat_history[2].created_at

\* C7: a create_showcase call by the owner that answers with a token for an
\* existing plan assigns the token when the plan has none, and otherwise
\* returns the stored token and leaves the row as it is, so that any two calls
\* on the plan return the same token.
C7_ShowcaseIdempotent ==
  [][(last'.op = "create_showcase" /\ last'.status = 200)
     => \A p \in Range(farm_plans) :
          (p.id = last'.id /\ p.user_id = last'.user)
            => IF p.showcase_id # None
               THEN last'.showcase_id = p.showcase_id /\ farm_plans' = farm_plans
               ELSE /\ last'.showcase_id # None
                    /\ \E q \in Range(farm_plans') :
                         q.id = p.id /\ q.showcase_id = last'.showcase_id]_vars

\* C8: a plan's showcase_id, once it is not null, stays what it is while the
\* plan exists; no two plans share a showcase_id; and the token a
\* create_showcase response carries resolves through /showcase/<token> to
\* exactly that plan, also when requests on the plan overlap.
C8_ShowcaseIdStableAndUnique ==
  [][/\ \A p \in Range(farm_plans), q \in Range(farm_plans') :
          (p.showcase_id # None /\ q.id = p.id) => q.showcase_id = p.showcase_id
     /\ \A i, j \in DOMAIN farm_plans' :
          (i # j /\ farm_plans'[i].showcase_id # None)
            => farm_plans'[i].showcase_id # farm_plans'[j].showcase_id
     /\ (/\ last'.op = "create_showcase" /\ last'.status = 200
         /\ \E q \in Range(farm_plans') : q.id = last'.id)
          => LET Match(p) == /\ p.showcase_id = last'.showcase_id
                                 /\ \E u \in Range(users') : u.id = p.user_id
                 rows == SelectSeq(farm_plans', Match)
             IN Len(rows) = 1 /\ rows[1].id = last'.id]_vars

\* the handlers that invoke the backend
AiOps == {"generate", "diagnose", "follow_up", "diagnose_follow_up", "knowledge_query"}

\* C9: while the backend is unconfigured no step calls the model, and every
\* AI-invoking request that is not turned away before the invocation (login
\* redirect, 400, 404, 429) answers with the service-unavailable error: 500
\* with the unavailable fragment from generate and diagnose, 503 from the
\* follow-ups and knowledge_query.
C9_UnconfiguredIsUnavailable ==
  [][~configured
     => /\ ~last'.called
        /\ last'.outcome = "-"
        /\ (last'.op \in AiOps /\ last'.status \notin {302, 400, 404, 429})
             => /\ last'.err = "unavailable"
                /\ last'.status = IF last'.op \in {"generate", "diagnose"}
                                  THEN 500 ELSE 503]_vars

\* C9 witness: the process was restarted without the key and the owner's
\* follow-up on a stored plan was answered 503 without a call
C9_Witness ==
  /\ ~configured
  /\ last.op = "follow_up" /\ last.status = 503 /\ last.err = "unavailable"
  /\ ~last.called
  /\ \E p \in Range(farm_plans) : p.id = last.id /\ p.user_id = last.user

\* C10: when the backend call of generate or diagnose raises or returns a
\* malformed response, the generation function returns its error fragment with
\* no suggestions, the endpoint answers 500, and no table row and no session
\* key changes (no plan or diagnosis row, free_plan_used not set, no guest plan
\* cached).
C10_BackendFailureIs500 ==
  [][/\ configured
          => \A o \in BackendFailures :
               /\ generate_farm_plan(o).plan_html = ErrPlanHtml
               /\ generate_farm_plan(o).suggestions = <<>>
               /\ diagnose_plant_issue("maize", o).report_html = ErrDiagnosisHtml
               /\ diagnose_plant_issue("maize", o).suggestions = <<>>
     /\ (last'.op \in {"generate", "diagnose"} /\ last'.outcome \in BackendFailures)
          => /\ last'.status = 500
             /\ UNCHANGED <<db, session>>]_vars

\* C10 witness: a guest's generate met a malformed response: 500, the flag not
\* set, nothing cached, no plan stored
C10_Witness ==
  /\ last.op = "generate" /\ last.outcome = Malformed /\ last.status = 500
  /\ last.user = None
  /\ ~session[last.sess].free_plan_used
  /\ session[last.sess].guest_plan = <<>>
  /\ farm_plans = <<>>

\* the steps in which a generation function post-processed a response text
Parsed == last.op \in {"generate_farm_plan", "diagnose_plant_issue"}

C12_SuggestionLinesKept ==
  (Parsed /\ Find(last.sent, Sentinel) # 0) =>
    LET after == SubSeq(last.sent, Find(last.sent, Sentinel) + 1, Len(last.sent))
        lines == SplitLines(after)
        trimmed == [i \in DOMAIN lines |-> StripText(lines[i])]
        Keep(line) == /\ line # <<>>
                      /\ \/ line[1] \in {"1", "2", "3"}
                         \/ Len(line) >= 2 /\ line[1] = "-" /\ line[2] = " "
        kept == SelectSeq(trimmed, Keep)
    IN last.result[1].suggestions = SubSeq(kept, 1, IF Len(kept) < 3 THEN Len(kept) ELSE 3)

\* C16: the diagnosis title is the first line of the primary answer, its marker
\* removed, when that line starts with **Title:** or with a heading mark, and
\* "Diagnosis for {crop_type}" in every other case.
C16_TitleFromMarkedFirstLine ==
  last.op = "diagnose_plant_issue" =>
    LET primary == IF Find(last.sent, Sentinel) # 0
                   THEN SubSeq(last.sent, 1, Find(last.sent, Sentinel) - 1)
                   ELSE last.sent
        first == SplitLines(StripText(primary))[1]
    IN last.result[1].title =
         IF first # <<>> /\ first[1] \in {"**Title:**", "#"}
         THEN Join(StripText(Tail(first)))
         ELSE "Diagnosis for maize"

C14_CapPerIdentity ==
  [][\A s, t \in Sessions :
       (/\ last'.op \in {"generate", "diagnose"}
        /\ last'.sess = s
        /\ t # s
        /\ IF IsAuthenticated(s) /\ IsAuthenticated(t)
           THEN session[s].user_id # session[t].user_id
           ELSE IF ~IsAuthenticated(s) /\ ~IsAuthenticated(t)
           THEN ClientAddr[s] # ClientAddr[t]
           ELSE TRUE)
       => /\ GenerateHits(t)' = GenerateHits(t)
          /\ limiter'.diagnose[ClientAddr[t]] = limiter.diagnose[ClientAddr[t]]]_vars

\* a sequence continues another: the older one is its beginning
IsPrefix(old, new) == Len(old) <= Len(new) /\ SubSeq(new, 1, Len(old)) = old

\* rows as a SELECT role, content ... ORDER BY created_at ASC returns them
ReadBack(rows) ==
  LET sorted == OrderByCreatedAt(rows)
  IN [i \in DOMAIN sorted |-> [role |-> sorted[i].role, content |-> sorted[i].content]]

\* C15: as long as a plan exists, every step leaves the turns stored for it,
\* as rows and as the history read back in created_at order, unchanged as the
\* beginning of the turns stored after the step; a plan row disappears only
\* by a successful delete_plan of it; likewise for diagnoses.
C15_ChatLogAppendOnly ==
  [][/\ \A p \in Range(farm_plans) :
          IF \E q \in Range(farm_plans') : q.id = p.id
          THEN LET Mine(row) == row.plan_id = p.id
                   old == SelectSeq(chat_history, Mine)
                   new == SelectSeq(chat_history', Mine)
               IN old = new \/ (IsPrefix(old, new) /\ IsPrefix(ReadBack(old), ReadBack(new)))
          ELSE last'.op = "delete_plan" /\ last'.status = 200 /\ last'.id = p.id
     /\ \A d \in Range(diagnoses) :
          IF \E e \in Range(diagnoses') : e.id = d.id
          THEN LET Mine(row) == row.diagnosis_id = d.id
                   old == SelectSeq(diagnoses_chat_history, Mine)
                   new == SelectSeq(diagnoses_chat_history', Mine)
               IN old = new \/ (IsPrefix(old, new) /\ IsPrefix(ReadBack(old), ReadBack(new)))
          ELSE last'.op = "delete_diagnosis" /\ last'.status = 200 /\ last'.id = d.id]_vars

\* C15 witness: a second question was appended to a question and its answer
\* stored in an earlier second for a plan that still exists
C15_Witness ==
  /\ last.op = "follow_up" /\ last.called
  /\ \E p \in Range(farm_plans) : p.id = last.id
  /\ Len(PlanHistory(last.id)) = 3
  /\ PlanHistory(last.id)[2].role = "assistant"
  /\ chat_history[2].created_at < chat_history[3].created_at

\* C17: /api/generate evaluates the guest gate before the backend call: a
\* request of an unauthenticated session whose free plan is already used is
\* answered without a backend call having been made for it.
C17_GateBeforeBackendCall ==
  [][(/\ last'.op = "generate"
      /\ last'.user = None
      /\ session[last'.sess].free_plan_used)
     => ~last'.called]_vars

\* C18: the application does not serialize follow-ups on one plan: a follow-up
\* that arrives while another on the same plan waits for the backend is taken
\* at once, its question is stored behind the other's unanswered question (two
\* more user turns than assistant turns are stored for the plan, no answer
\* between them), and the transcript it sends holds every turn stored so far,
\* the other's question among them, and not the other's answer.
C18_FollowUpsInterleave ==
  [][\A r \in ReqIds :
       (/\ reqs[r].kind = "follow_up"
        /\ reqs'[r] = reqs[r]
        /\ last'.op = "follow_up"
        /\ last'.id = reqs[r].id
        /\ last'.status \notin {400, 404, 302}
        /\ \E q \in ReqIds : reqs[q] = Idle)
       => LET Mine(row) == row.plan_id = last'.id
              MyUser(row) == row.plan_id = last'.id /\ row.role = "user"
              MyAssistant(row) == row.plan_id = last'.id /\ row.role = "assistant"
              prior == SelectSeq(chat_history, Mine)
          IN /\ last'.called
             /\ \A q \in ReqIds : reqs'[q].kind = "follow_up" /\ reqs'[q].id = last'.id
             /\ chat_history' = Append(chat_history, PlanTurn(last'.id, "user", last'.request[1]))
             /\ Len(SelectSeq(chat_history', MyUser))
                  >= Len(SelectSeq(chat_history', MyAssistant)) + 2
             /\ Len(last'.sent) = Len(prior) + 4
             /\ \E i \in DOMAIN prior :
                  prior[i].role = "user" /\ last'.sent[2 + i] = "User: " \o prior[i].content]_vars

\* C18 witness: two questions on one plan were stored before either answer,
\* then the first answer: it does not follow its question, and the other
\* request still waits
C18_Witness ==
  /\ last.op = "follow_up" /\ last.status = 200
  /\ \E r \in ReqIds : reqs[r].kind = "follow_up" /\ reqs[r].id = last.id
  /\ Len(chat_history) = 3
  /\ \A i \in DOMAIN chat_history : chat_history[i].plan_id = last.id
  /\ chat_history[1].role = "user"
  /\ chat_history[2].role = "user"
  /\ chat_history[3].role = "assistant"

\* C19: in every reachable state each chat_history row's plan_id is the id of
\* a farm_plans row and each diagnoses_chat_history row's diagnosis_id is the
\* id of a diagnoses row.
C19_NoOrphanTurns ==
  /\ \A i \in DOMAIN chat_history :
       \E p \in Range(farm_plans) : p.id = chat_history[i].plan_id
  /\ \A i \in DOMAIN diagnoses_chat_history :
       \E d \in Range(diagnoses) : d.id = diagnoses_chat_history[i].diagnosis_id

\* C20: in every session, whatever generate, register, login and logout
\* requests it has made: the free-plan flag, once set, stays set; a cached
\* guest plan is present only with the flag set; and a guest plan is written
\* to the session only by a guest's generate answered 200 in a session whose
\* flag was not yet set, hence at most once.
C20_FreePlanFlagMonotone ==
  [][\A s \in Sessions :
       /\ session[s].free_plan_used => session'[s].free_plan_used
       /\ session'[s].guest_plan # <<>> => session'[s].free_plan_used
       /\ (session'[s].guest_plan # <<>> /\ session'[s].guest_plan # session[s].guest_plan)
            => /\ ~session[s].free_plan_used
               /\ last'.op = "generate" /\ last'.sess = s /\ last'.status = 200
       /\ (last'.op = "generate" /\ last'.sess = s /\ last'.user = None /\ last'.status = 200)
            => /\ ~session[s].free_plan_used
               /\ session[s].guest_plan = <<>>
               /\ session'[s].guest_plan # <<>>]_vars

\* C20 witness: the session's guest plan was committed by a registration, and
\* a later guest generate is turned away: the flag is still set, no plan cached
C20_Witness ==
  /\ last.op = "generate" /\ last.user = None
  /\ last.status = 429 /\ last.err = "free_plan_used"
  /\ users # <<>>
  /\ session[last.sess].free_plan_used
  /\ session[last.sess].guest_plan = <<>>

====
